---- MODULE Spec2Model ----
(***************************************************************************)
(* Model of the GitHub-to-Markdown backend (src/backend/app/main.py):      *)
(* URL parsing, the recursive repository traversal over a mocked remote    *)
(* API, the text-tree renderer and the Markdown assembler.                 *)
(*                                                                         *)
(* Python strings are sequences of one-character strings, so that          *)
(* splitting, lower-casing and comparison are computed as the code         *)
(* computes them.  The newline character is written "LF".                  *)
(***************************************************************************)
EXTENDS Integers, Sequences, FiniteSets, TLC

VARIABLES
    github_url,      \* RepoRequest.github_url
    github_token,    \* RepoRequest.github_token (None when absent)
    BACKEND_GITHUB_TOKEN_ENV, \* process-level fallback token (None when unset)
    pc,              \* position of fetch_repo_api: "start", "parsed", "fetching", "done"
    parsed,          \* result of parse_github_url once it ran
    stack,           \* active fetch_repo_contents_recursive calls, innermost last
    client,          \* the httpx.AsyncClient: "none", "open", "closed"
    aclose_calls,    \* how often aclose() ran on the client
    requests,        \* every remote request issued so far, with its answer
    fetched,         \* repo_tree_root, all_files_data_flat as the initial call returned them
    response         \* what fetch_repo_api hands to its caller

vars == <<github_url, github_token, BACKEND_GITHUB_TOKEN_ENV, pc, parsed,
          stack, client, aclose_calls, requests, fetched, response>>

None == "None"

-----------------------------------------------------------------------------
(* Bounds of the model *)

\* total number of entries the mocked remote serves during one traversal, for
\* the request that supplies a token while a fallback is configured
MaxItems == 3
\* the same, for every other combination of caller token and fallback token
MaxItemsAnyToken == 2
\* number of pieces a candidate URL is assembled from after its head
MaxPieces == 5

-----------------------------------------------------------------------------
(* Characters and strings *)

Upper == <<"A","B","C","D","E","F","G","H","I","J","K","L","M","N","O","P","Q","R","S","T","U","V","W","X","Y","Z">>
LowerCase == <<"a","b","c","d","e","f","g","h","i","j","k","l","m","n","o","p","q","r","s","t","u","v","w","x","y","z">>
Digits == <<"0","1","2","3","4","5","6","7","8","9">>

\* the characters used, in ascending code-point order
Ascii == <<"LF", ".", "/">> \o Digits \o <<":">> \o Upper \o <<"_">> \o LowerCase

IndexOf(seq, c) == CHOOSE i \in 1..Len(seq) : seq[i] = c

\* code-point order of two characters
CharCode(c) == IndexOf(Ascii, c)

\* str.lower() on one character
LowerChar(c) ==
    IF \E i \in 1..Len(Upper) : Upper[i] = c THEN LowerCase[IndexOf(Upper, c)] ELSE c

\* str.lower()
Lower(s) == [i \in 1..Len(s) |-> LowerChar(s[i])]

\* Python's str < str: lexicographic by code point, a proper prefix is smaller
RECURSIVE StrLess(_, _)
StrLess(s, t) ==
    IF t = <<>> THEN FALSE
    ELSE IF s = <<>> THEN TRUE
    ELSE IF s[1] = t[1] THEN StrLess(Tail(s), Tail(t))
    ELSE CharCode(s[1]) < CharCode(t[1])

\* s[i:] (1-based start)
DropTo(s, i) == SubSeq(s, i, Len(s))

StartsWith(s, p) == Len(s) >= Len(p) /\ SubSeq(s, 1, Len(p)) = p

\* str.rfind(c) as a 1-based index, 0 when c does not occur
RFind(s, c) ==
    IF \E i \in 1..Len(s) : s[i] = c
    THEN CHOOSE i \in 1..Len(s) : s[i] = c /\ \A j \in (i+1)..Len(s) : s[j] # c
    ELSE 0

\* s.split('/')[-1]
LastSegment(s) == DropTo(s, RFind(s, "/") + 1)

Contains(s, c) == \E i \in 1..Len(s) : s[i] = c

\* "/".join of a parent path and a name, as the remote API forms entry paths
JoinPath(parent, name) == IF parent = <<>> THEN name ELSE parent \o <<"/">> \o name

-----------------------------------------------------------------------------
(* Binary classifier *)

BINARY_FILE_EXTENSIONS == {
    <<".","j","p","g">>, <<".","j","p","e","g">>, <<".","p","n","g">>, <<".","g","i","f">>,
    <<".","b","m","p">>, <<".","t","i","f","f">>, <<".","w","e","b","p">>, <<".","s","v","g">>,
    <<".","i","c","o">>, <<".","m","p","3">>, <<".","w","a","v">>, <<".","a","a","c">>,
    <<".","o","g","g">>, <<".","f","l","a","c">>, <<".","m","p","4">>, <<".","m","o","v">>,
    <<".","a","v","i">>, <<".","m","k","v">>, <<".","w","e","b","m">>, <<".","z","i","p">>,
    <<".","t","a","r">>, <<".","g","z">>, <<".","r","a","r">>, <<".","7","z">>,
    <<".","p","d","f">>, <<".","d","o","c">>, <<".","d","o","c","x">>, <<".","p","p","t">>,
    <<".","p","p","t","x">>, <<".","x","l","s">>, <<".","x","l","s","x">>, <<".","e","x","e">>,
    <<".","d","l","l">>, <<".","s","o">>, <<".","d","y","l","i","b">>, <<".","j","a","r">>,
    <<".","p","y","c">>, <<".","p","y","o">>, <<".","c","l","a","s","s">>, <<".","o">>,
    <<".","a">>, <<".","o","b","j">>, <<".","e","o","t">>, <<".","o","t","f">>,
    <<".","t","t","f">>, <<".","w","o","f","f">>, <<".","w","o","f","f","2">>,
    <<".","D","S","_","S","t","o","r","e">> }

\* os.path.splitext(p)[1]: the extension of the final path segment, from its
\* last dot; a segment made of leading dots only up to that dot has none
SplitExt(p) ==
    LET sepIndex == RFind(p, "/")
        dotIndex == RFind(p, ".")
    IN  IF dotIndex > sepIndex
           /\ \E k \in (sepIndex + 1)..(dotIndex - 1) : p[k] # "."
        THEN DropTo(p, dotIndex)
        ELSE <<>>

is_binary_file(file_path) == Lower(SplitExt(file_path)) \in BINARY_FILE_EXTENSIONS

-----------------------------------------------------------------------------
(* Credentials *)

\* Python truthiness of an Optional[str]
Truthy(t) == t # None /\ t # ""

\* the Authorization header of get_github_api_headers, None when it is absent
get_github_api_headers(user_provided_token, env_token) ==
    LET token_to_use == IF Truthy(user_provided_token) THEN user_provided_token
                        ELSE env_token
    IN  IF Truthy(token_to_use) THEN token_to_use ELSE None

-----------------------------------------------------------------------------
(* URL parser *)

GithubPrefix == <<"h","t","t","p","s",":","/","/","g","i","t","h","u","b",".","c","o","m","/">>
DotGit == <<".","g","i","t">>
SlashTree == <<"/","t","r","e","e","/">>

\* `$`: the end of the string, or just before a final newline
MatchEnd(s) == s = <<>> \/ s = <<"LF">>

\* `/?$`
MatchSlashEnd(s) ==
    \/ MatchEnd(s)
    \/ Len(s) >= 1 /\ s[1] = "/" /\ MatchEnd(Tail(s))

\* `(?:/.*)?/?$` ('.' matches any character but the newline)
MatchSubpath(s) ==
    \/ MatchSlashEnd(s)
    \/ /\ Len(s) >= 1 /\ s[1] = "/"
       /\ \E k \in 1..Len(s) :
            /\ \A j \in 2..k : s[j] # "LF"
            /\ MatchSlashEnd(DropTo(s, k + 1))

\* `(?:/tree/[^/]+(?:/.*)?)?/?$`
MatchTree(s) ==
    \/ MatchSlashEnd(s)
    \/ /\ StartsWith(s, SlashTree)
       /\ \E k \in (Len(SlashTree) + 1)..Len(s) :
            /\ \A j \in (Len(SlashTree) + 1)..k : s[j] # "/"
            /\ MatchSubpath(DropTo(s, k + 1))

\* `(?:\.git)?(?:/tree/[^/]+(?:/.*)?)?/?$`
MatchGit(s) ==
    \/ StartsWith(s, DotGit) /\ MatchTree(DropTo(s, Len(DotGit) + 1))
    \/ MatchTree(s)

\* length n of a repo group `[^/.]+?` at the head of s after which the rest matches
RepoFits(s, n) ==
    /\ n >= 1 /\ n <= Len(s)
    /\ \A j \in 1..n : s[j] # "/" /\ s[j] # "."
    /\ MatchGit(DropTo(s, n + 1))

\* re.match of the pattern of parse_github_url; the groups, or the ValueError
parse_github_url(url) ==
    IF ~StartsWith(url, GithubPrefix) THEN [ok |-> FALSE]
    ELSE
        LET rest == DropTo(url, Len(GithubPrefix) + 1)
            slash == IF Contains(rest, "/")
                     THEN CHOOSE i \in 1..Len(rest) :
                            rest[i] = "/" /\ \A j \in 1..(i-1) : rest[j] # "/"
                     ELSE 0
        IN  IF slash <= 1 THEN [ok |-> FALSE]
            ELSE
                LET after == DropTo(rest, slash + 1)
                IN  IF \E n \in 1..Len(after) : RepoFits(after, n)
                    THEN LET n == CHOOSE n \in 1..Len(after) :
                                    RepoFits(after, n)
                                    /\ \A m \in 1..(n-1) : ~RepoFits(after, m)
                         IN  [ok |-> TRUE,
                              owner |-> SubSeq(rest, 1, slash - 1),
                              repo |-> SubSeq(after, 1, n)]
                    ELSE [ok |-> FALSE]

-----------------------------------------------------------------------------
(* Sorting: list.sort(key=...) is stable and compares the keys as tuples *)

\* (a, s) < (b, t) for a key made of a rank and a string
TupleLess(k1, k2) == k1[1] < k2[1] \/ (k1[1] = k2[1] /\ StrLess(k1[2], k2[2]))

\* insert the pair p = <<key, element>> after every pair whose key is not greater
InsertSorted(p, s) ==
    LET n == Cardinality({i \in 1..Len(s) : ~TupleLess(p[1], s[i][1])})
    IN  SubSeq(s, 1, n) \o <<p>> \o SubSeq(s, n + 1, Len(s))

RECURSIVE SortPairs(_)
SortPairs(ps) ==
    IF ps = <<>> THEN <<>>
    ELSE InsertSorted(ps[Len(ps)], SortPairs(SubSeq(ps, 1, Len(ps) - 1)))

\* mutant: the names are compared without lower()
ChildKeyCaseSensitive(x) == <<IF x.type # "dir" THEN 1 ELSE 0, x.name>>

\* key of current_node.children.sort: (x.type != 'dir', x.name.lower())
ChildKey(x) == <<IF x.type # "dir" THEN 1 ELSE 0, Lower(x.name)>>

SortChildren(children) ==
    LET sorted == SortPairs([i \in 1..Len(children) |-> <<ChildKey(children[i]), children[i]>>])
    IN  [i \in 1..Len(children) |-> sorted[i][2]]

\* mutant: the paths are compared without lower()
FlatKeyCaseSensitive(x) == <<0, x.path>>

\* key of all_files_data_flat.sort: x['path'].lower()
FlatKey(x) == <<0, Lower(x.path)>>

SortFlat(flat) ==
    LET sorted == SortPairs([i \in 1..Len(flat) |-> <<FlatKey(flat[i]), flat[i]>>])
    IN  [i \in 1..Len(flat) |-> sorted[i][2]]

-----------------------------------------------------------------------------
(* The mocked remote API *)

\* names the remote gives to entries
NamePool == { <<"A">>, <<"a",".","p","y">>, <<"B",".","P","N","G">> }

\* shapes of an entry: its type, and for a file whether the descriptor carries
\* a download_url and whether it carries inline base64 content
EntryKinds == {
    [type |-> "dir",     download_url |-> FALSE, inline |-> FALSE],
    [type |-> "symlink", download_url |-> FALSE, inline |-> FALSE],
    [type |-> "file",    download_url |-> TRUE,  inline |-> FALSE],
    [type |-> "file",    download_url |-> FALSE, inline |-> FALSE],
    [type |-> "file",    download_url |-> FALSE, inline |-> TRUE] }

Entry(parent, name, kind) ==
    [name |-> name, path |-> JoinPath(parent, name), type |-> kind.type,
     download_url |-> kind.download_url, inline |-> kind.inline]

\* the listings of at most n entries the remote may return for a directory:
\* entries of one directory have distinct names, in any order
Listings(parent, n) ==
    UNION { { [i \in 1..k |-> Entry(parent, names[i], kinds[i])] :
                names \in { f \in [1..k -> NamePool] :
                              \A i, j \in 1..k : i # j => f[i] # f[j] },
                kinds \in [1..k -> EntryKinds] } :
            k \in 0..(IF n < Cardinality(NamePool) THEN n ELSE Cardinality(NamePool)) }

\* the single file object the remote may return for a path
FileObjects(path) ==
    { [name |-> LastSegment(p), path |-> p, type |-> kind.type,
       download_url |-> kind.download_url, inline |-> kind.inline] :
        p \in (IF path = <<>> THEN NamePool ELSE {path}),
        kind \in {k \in EntryKinds : k.type = "file"} }

\* number of entries served so far
RECURSIVE ItemsServed(_)
ItemsServed(reqs) ==
    IF reqs = <<>> THEN 0
    ELSE ItemsServed(SubSeq(reqs, 1, Len(reqs) - 1))
         + (IF reqs[Len(reqs)].kind # "listing" THEN 0
            ELSE IF reqs[Len(reqs)].answer.kind = "list" THEN Len(reqs[Len(reqs)].answer.items)
            ELSE IF reqs[Len(reqs)].answer.kind = "file" THEN 1
            ELSE 0)

\* number of entries the remote may serve in this traversal
ItemBudget ==
    IF github_token = "user_token" /\ BACKEND_GITHUB_TOKEN_ENV = "env_token"
    THEN MaxItems ELSE MaxItemsAnyToken

\* answers to a listing request: HTTP error statuses (a 403 with each value of
\* the X-RateLimit-Remaining header), a transport failure, or a 2xx whose body is
\* a list, a file object, some other JSON value, or no JSON at all
ListingAnswers(path, reqs) ==
    { [kind |-> "status", code |-> c, rate_limit_remaining |-> None] : c \in {404, 401, 500} }
    \cup { [kind |-> "status", code |-> 403, rate_limit_remaining |-> r] : r \in {"0", "1", None} }
    \cup { [kind |-> "request_error"], [kind |-> "other_json"], [kind |-> "not_json"] }
    \cup { [kind |-> "file", item |-> it] :
                it \in IF ItemsServed(reqs) < ItemBudget THEN FileObjects(path) ELSE {} }
    \cup { [kind |-> "list", items |-> its] : its \in Listings(path, ItemBudget - ItemsServed(reqs)) }

\* answers to a download request
DownloadAnswers == { "ok", "status_error", "request_error" }

-----------------------------------------------------------------------------
(* Content of one file *)

BinaryPlaceholder(path) == [kind |-> "binary_placeholder", path |-> path]
NotFetchedPlaceholder(path) == [kind |-> "not_fetched_placeholder", path |-> path]
\* the text of the downloaded body, decoded as UTF-8 with replacement
DecodedBody(path) == [kind |-> "text", path |-> path]

\* mutant: the download is attempted for every entry that carries a URL
DownloadsWheneverUrl(item) == item.download_url

\* whether the code issues a download request for the entry
Downloads(item) == ~is_binary_file(item.path) /\ item.download_url

\* mutant: a failed download leaves the default placeholder in place
ListFileContentErrorIgnored(item, dl) ==
    IF ~is_binary_file(item.path) /\ item.download_url /\ dl = "ok"
    THEN DecodedBody(item.path)
    ELSE IF ~is_binary_file(item.path) /\ ~item.download_url
         THEN NotFetchedPlaceholder(item.path)
         ELSE BinaryPlaceholder(item.path)

\* file_content_str of an entry of a directory listing; dl is the answer to the
\* download request when one is issued
ListFileContent(item, dl) ==
    IF is_binary_file(item.path) THEN BinaryPlaceholder(item.path)
    ELSE IF item.download_url
         THEN IF dl = "ok" THEN DecodedBody(item.path)
              ELSE [kind |-> "error_text_content", path |-> item.path, error |-> dl]
         ELSE NotFetchedPlaceholder(item.path)

\* file_content_str when the requested path is itself a file
SingleFileContent(item, dl) ==
    IF is_binary_file(item.path) THEN BinaryPlaceholder(item.path)
    ELSE IF item.download_url
         THEN IF dl = "ok" THEN DecodedBody(item.path)
              ELSE [kind |-> "error_content", path |-> item.path, error |-> dl]
         ELSE BinaryPlaceholder(item.path)

FileNodeOf(item, content) ==
    [name |-> item.name, path |-> item.path, type |-> "file", content |-> content]

FlatEntry(item, content) == [path |-> item.path, content |-> content]

-----------------------------------------------------------------------------
(* Tree-text renderer *)

\* children of a node as the renderer sees them: None and [] are both falsy
NodeChildren(node) == IF node.type = "dir" THEN node.children ELSE <<>>

\* connector of a node's line
Connector(is_last_sibling) == IF is_last_sibling THEN "L-- " ELSE "+-- "

\* mutant: the continuation bar is kept below a last sibling
ChildPrefixAlwaysBar(prefix, is_last_sibling) == prefix \o <<"|   ">>

\* child_prefix: the prefix of the lines below a node
ChildPrefix(prefix, is_last_sibling) ==
    prefix \o <<IF is_last_sibling THEN "    " ELSE "|   ">>

RECURSIVE generate_text_tree(_, _, _)
RECURSIVE RenderChildren(_, _, _)

\* the lines generate_text_tree appends for node; a line is kept as its parts.
\* The box-drawing connectors are written "L-- " (closing) and "+-- ", the
\* vertical continuation "|   "
generate_text_tree(node, prefix, is_last_sibling) ==
    LET connector == Connector(is_last_sibling)
        line == [prefix |-> prefix, connector |-> connector,
                 name |-> node.name, slash |-> node.type = "dir"]
        child_prefix == ChildPrefix(prefix, is_last_sibling)
    IN  <<line>> \o (IF node.type = "dir" /\ NodeChildren(node) # <<>>
                     THEN RenderChildren(node.children, child_prefix, 1)
                     ELSE <<>>)

\* for i, child in enumerate(children): generate_text_tree(child, ..., i == n - 1)
RenderChildren(children, prefix, i) ==
    IF i > Len(children) THEN <<>>
    ELSE generate_text_tree(children[i], prefix, i = Len(children))
         \o RenderChildren(children, prefix, i + 1)

\* text_tree_lines_list of fetch_repo_api
TextTree(root) ==
    <<[prefix |-> <<>>, connector |-> "", name |-> root.name, slash |-> TRUE]>>
    \o RenderChildren(NodeChildren(root), <<>>, 1)

-----------------------------------------------------------------------------
(* Markdown assembler *)

\* lang: the lowered text after the last '.' of the path, empty without a '.' 
Lang(path) ==
    IF Contains(path, ".") THEN Lower(DropTo(path, RFind(path, ".") + 1)) ELSE <<>>

\* lang_map.get(lang, lang if lang else "text")
DisplayLang(lang) ==
    CASE lang = <<"j","s">> -> <<"j","a","v","a","s","c","r","i","p","t">>
      [] lang = <<"p","y">> -> <<"p","y","t","h","o","n">>
      [] lang = <<"m","d">> -> <<"m","a","r","k","d","o","w","n">>
      [] lang = <<"y","m","l">> -> <<"y","a","m","l">>
      [] lang = <<"s","h">> -> <<"b","a","s","h">>
      [] OTHER -> IF lang # <<>> THEN lang ELSE <<"t","e","x","t">>

\* the parts appended for one flat entry: the heading, then the content bare or fenced
Section(file_data) ==
    IF is_binary_file(file_data.path)
    THEN [heading |-> file_data.path, fenced |-> FALSE, content |-> file_data.content]
    ELSE [heading |-> file_data.path, fenced |-> TRUE,
          lang |-> DisplayLang(Lang(file_data.path)), content |-> file_data.content]

\* file_contents_map: a later entry of the same path replaces an earlier one
FileContentsMap(flat) ==
    [p \in {flat[i].path : i \in 1..Len(flat)} |->
        flat[CHOOSE i \in 1..Len(flat) :
                flat[i].path = p /\ \A j \in (i+1)..Len(flat) : flat[j].path # p].content]

\* the RepoDataResponse of fetch_repo_api
RepoDataResponse(owner, repo_name, repo_tree_root, all_files_data_flat) ==
    LET sorted == SortFlat(all_files_data_flat)
    IN  [status |-> "ok",
         tree |-> repo_tree_root,
         all_files_markdown |->
            [title |-> <<owner, repo_name>>,
             structure |-> TextTree(repo_tree_root),
             files |-> [i \in 1..Len(sorted) |-> Section(sorted[i])]],
         file_contents |-> FileContentsMap(all_files_data_flat)]

\* the error response FastAPI makes of an HTTPException
ErrorResponse(status_code, detail) ==
    [status |-> "error", status_code |-> status_code, detail |-> detail]

-----------------------------------------------------------------------------
(* fetch_repo_api and fetch_repo_contents_recursive *)

GitlabPrefix == <<"h","t","t","p","s",":","/","/","g","i","t","l","a","b",".","c","o","m","/">>

\* the URLs submitted to the whole pipeline
MainUrls == { GithubPrefix \o <<"o","/","r">>, GitlabPrefix \o <<"o","/","r">> }

Init ==
    /\ github_url \in MainUrls
    /\ github_token \in {None, "", "user_token"}
    /\ BACKEND_GITHUB_TOKEN_ENV \in {None, "env_token"}
    /\ pc = "start"
    /\ parsed = [ok |-> FALSE]
    /\ stack = <<>>
    /\ client = "none"
    /\ aclose_calls = 0
    /\ requests = <<>>
    /\ fetched = [returned |-> FALSE]
    /\ response = [status |-> "pending"]

\* owner, repo_name = parse_github_url(request.github_url), a ValueError
\* becoming the 400 response
ParseUrl ==
    /\ pc = "start"
    /\ parsed' = parse_github_url(github_url)
    /\ IF parsed'.ok
       THEN pc' = "parsed" /\ UNCHANGED response
       ELSE pc' = "done" /\ response' = ErrorResponse(400, [kind |-> "invalid_url"])
    /\ UNCHANGED <<github_url, github_token, BACKEND_GITHUB_TOKEN_ENV, stack, client,
                   aclose_calls,
                   requests, fetched>>

\* the local state of one call of fetch_repo_contents_recursive at its entry;
\* creates_client is `not client`
NewCall(path, user_provided_token, creates_client) ==
    [path |-> path,
     user_provided_token |-> user_provided_token,
     current_api_headers |-> get_github_api_headers(user_provided_token, BACKEND_GITHUB_TOKEN_ENV),
     creates_client |-> creates_client,
     phase |-> "list", items |-> <<>>, i |-> 1,
     children |-> <<>>, all_files_data_flat |-> <<>>]

\* the initial call: no client is passed, so the call creates one
StartFetch ==
    /\ pc = "parsed"
    /\ pc' = "fetching"
    /\ stack' = <<NewCall(<<>>, github_token, TRUE)>>
    /\ client' = "open"
    /\ UNCHANGED aclose_calls
    /\ UNCHANGED <<github_url, github_token, BACKEND_GITHUB_TOKEN_ENV, parsed, requests,
                   fetched, response>>

Top == stack[Len(stack)]

Listing ==  pc = "fetching" /\ stack # <<>> /\ Top.phase = "list"

\* a request as the remote sees it: its Authorization header, the state of the
\* client it is issued on, and the answer it gets
Request(kind, path, call, answer) ==
    [kind |-> kind, path |-> path, authorization |-> call.current_api_headers,
     client |-> client, answer |-> answer]

\* mutant: the 403 branch looks at the token before the rate-limit header
StatusDetailTokenFirst(code, rate_limit_remaining, user_provided_token) ==
    LET token_in_use == IF Truthy(user_provided_token) THEN user_provided_token
                        ELSE BACKEND_GITHUB_TOKEN_ENV
    IN  IF code = 404 THEN [kind |-> "not_found"]
        ELSE IF code = 403
             THEN IF ~Truthy(token_in_use) THEN [kind |-> "private_or_rate_limit"]
                  ELSE IF rate_limit_remaining = "0" THEN [kind |-> "rate_limit_exceeded"]
                  ELSE [kind |-> "check_token_permissions"]
        ELSE IF code = 401 THEN [kind |-> "bad_credentials"]
        ELSE [kind |-> "status", code |-> code]

\* detail_message of the HTTPException raised for an HTTPStatusError
StatusDetail(code, rate_limit_remaining, user_provided_token) ==
    LET token_in_use == IF Truthy(user_provided_token) THEN user_provided_token
                        ELSE BACKEND_GITHUB_TOKEN_ENV
    IN  IF code = 404 THEN [kind |-> "not_found"]
        ELSE IF code = 403
             THEN IF rate_limit_remaining = "0" THEN [kind |-> "rate_limit_exceeded"]
                  ELSE IF ~Truthy(token_in_use) THEN [kind |-> "private_or_rate_limit"]
                  ELSE [kind |-> "check_token_permissions"]
        ELSE IF code = 401 THEN [kind |-> "bad_credentials"]
        ELSE [kind |-> "status", code |-> code]

\* mutant: the finally block closes the client in every call
ClosedByEveryCall(calls) == Len(calls)

\* how many aclose() the finally blocks of the calls in `calls` run: one for
\* each call that created the client
ClosedBy(calls) ==
    Cardinality({k \in 1..Len(calls) : calls[k].creates_client})

\* the client after the finally blocks of the calls in `calls` ran
AfterFinally(calls) ==
    IF ClosedBy(calls) > 0 THEN "closed" ELSE client

\* mutant: a failure below the initial call is swallowed by the caller, which
\* goes on with its next entry
RaiseSwallowedBelow(resp) ==
    IF Len(stack) > 1
    THEN /\ stack' = SubSeq(stack, 1, Len(stack) - 2)
                     \o <<[stack[Len(stack) - 1] EXCEPT !.i = @ + 1]>>
         /\ UNCHANGED <<client, aclose_calls, fetched, response, pc>>
    ELSE /\ stack' = <<>>
         /\ client' = AfterFinally(stack)
         /\ aclose_calls' = aclose_calls + ClosedBy(stack)
         /\ response' = resp
         /\ pc' = "done"
         /\ UNCHANGED fetched

\* an exception leaves every active call; fetch_repo_api answers with resp
Raise(resp) ==
    /\ stack' = <<>>
    /\ UNCHANGED fetched
    /\ client' = AfterFinally(stack)
    /\ aclose_calls' = aclose_calls + ClosedBy(stack)
    /\ response' = resp
    /\ pc' = "done"

\* mutant: the subtree's flat list is not taken over
ExtendFlatDropped(all_files_data_flat, subtree_files_data) == all_files_data_flat

\* all_files_data_flat.extend(subtree_files_data)
ExtendFlat(all_files_data_flat, subtree_files_data) ==
    all_files_data_flat \o subtree_files_data

\* the innermost call returns (node, flat): to the call that awaits it, which
\* appends the node and extends its flat list, or to fetch_repo_api, which
\* assembles the response
Return(node, flat) ==
    /\ client' = AfterFinally(<<Top>>)
    /\ aclose_calls' = aclose_calls + ClosedBy(<<Top>>)
    /\ IF Len(stack) = 1
       THEN /\ stack' = <<>>
            /\ fetched' = [returned |-> TRUE, tree |-> node, flat |-> flat]
            /\ response' = RepoDataResponse(parsed.owner, parsed.repo, node, flat)
            /\ pc' = "done"
       ELSE /\ stack' = SubSeq(stack, 1, Len(stack) - 2)
                        \o <<[stack[Len(stack) - 1] EXCEPT
                                !.children = Append(@, node),
                                !.all_files_data_flat = ExtendFlat(@, flat),
                                !.i = @ + 1]>>
            /\ UNCHANGED <<fetched, response, pc>>

\* the listing request is answered with an error status, or fails in transport:
\* the HTTPException leaves the whole traversal
ListingFails ==
    /\ Listing
    /\ \E a \in ListingAnswers(Top.path, requests) :
        /\ a.kind \in {"status", "request_error"}
        /\ requests' = Append(requests, Request("listing", Top.path, Top, a))
        /\ IF a.kind = "status"
           THEN Raise(ErrorResponse(a.code,
                        StatusDetail(a.code, a.rate_limit_remaining, Top.user_provided_token)))
           ELSE Raise(ErrorResponse(503, [kind |-> "network_error"]))
    /\ UNCHANGED <<github_url, github_token, BACKEND_GITHUB_TOKEN_ENV, parsed>>

\* the listing request is answered 2xx with a body that is neither a file object
\* nor a list (HTTPException 500), or that is no JSON (response.json() raises,
\* and fetch_repo_api makes its own 500 of it)
ListingMalformed ==
    /\ Listing
    /\ \E a \in ListingAnswers(Top.path, requests) :
        /\ a.kind \in {"other_json", "not_json"}
        /\ requests' = Append(requests, Request("listing", Top.path, Top, a))
        /\ IF a.kind = "other_json"
           THEN Raise(ErrorResponse(500, [kind |-> "unexpected_format"]))
           ELSE Raise(ErrorResponse(500, [kind |-> "unexpected_server_error"]))
    /\ UNCHANGED <<github_url, github_token, BACKEND_GITHUB_TOKEN_ENV, parsed>>

\* the requests of one file: none, or one download request with its answer
DownloadRequests(item, call, dl) ==
    IF Downloads(item) THEN <<Request("download", item.path, call, dl)>> ELSE <<>>

\* the listing request is answered with a single file object
ListingSingleFile ==
    /\ Listing
    /\ \E a \in ListingAnswers(Top.path, requests) :
        /\ a.kind = "file"
        /\ \E dl \in (IF Downloads(a.item) THEN DownloadAnswers ELSE {None}) :
            LET file_content_str == SingleFileContent(a.item, dl)
            IN  /\ requests' = Append(requests, Request("listing", Top.path, Top, a))
                                \o DownloadRequests(a.item, Top, dl)
                /\ Return(FileNodeOf(a.item, file_content_str),
                          <<FlatEntry(a.item, file_content_str)>>)
    /\ UNCHANGED <<github_url, github_token, BACKEND_GITHUB_TOKEN_ENV, parsed>>

\* the listing request is answered with a list of entries
ListingDirectory ==
    /\ Listing
    /\ \E a \in ListingAnswers(Top.path, requests) :
        /\ a.kind = "list"
        /\ requests' = Append(requests, Request("listing", Top.path, Top, a))
        /\ stack' = [stack EXCEPT ![Len(stack)] = [@ EXCEPT !.phase = "items", !.items = a.items]]
    /\ UNCHANGED <<github_url, github_token, BACKEND_GITHUB_TOKEN_ENV, pc, parsed, client,
                   aclose_calls,
                   fetched, response>>

AtItem == pc = "fetching" /\ stack # <<>> /\ Top.phase = "items" /\ Top.i <= Len(Top.items)

\* for item in items_data, item['type'] == 'file'
ProcessFile ==
    /\ AtItem
    /\ LET item == Top.items[Top.i]
       IN  /\ item.type = "file"
           /\ \E dl \in (IF Downloads(item) THEN DownloadAnswers ELSE {None}) :
                LET file_content_str == ListFileContent(item, dl)
                IN  /\ requests' = requests \o DownloadRequests(item, Top, dl)
                    /\ stack' = [stack EXCEPT ![Len(stack)] =
                          [@ EXCEPT !.children = Append(@, FileNodeOf(item, file_content_str)),
                                    !.all_files_data_flat = Append(@, FlatEntry(item, file_content_str)),
                                    !.i = @ + 1]]
    /\ UNCHANGED <<github_url, github_token, BACKEND_GITHUB_TOKEN_ENV, pc, parsed, client,
                   aclose_calls,
                   fetched, response>>

\* mutant: the recursive call is made without the caller's token
PassedTokenDropped(call) == None

\* the user_provided_token argument of the recursive call
PassedToken(call) == call.user_provided_token

\* for item in items_data, item['type'] == 'dir': the recursive call, with the
\* client and the caller's token passed down
ProcessDir ==
    /\ AtItem
    /\ LET item == Top.items[Top.i]
       IN  /\ item.type = "dir"
           /\ stack' = Append(stack, NewCall(item.path, PassedToken(Top), FALSE))
    /\ UNCHANGED <<github_url, github_token, BACKEND_GITHUB_TOKEN_ENV, pc, parsed, client,
                   aclose_calls,
                   requests, fetched, response>>

\* for item in items_data, any other type: neither branch applies
SkipEntry ==
    /\ AtItem
    /\ Top.items[Top.i].type \notin {"file", "dir"}
    /\ stack' = [stack EXCEPT ![Len(stack)] = [@ EXCEPT !.i = @ + 1]]
    /\ UNCHANGED <<github_url, github_token, BACKEND_GITHUB_TOKEN_ENV, pc, parsed, client,
                   aclose_calls,
                   requests, fetched, response>>

\* current_node of a directory call once its entries are processed, children sorted
DirectoryNode(call, repo) ==
    [name |-> IF call.path # <<>> THEN LastSegment(call.path) ELSE repo,
     path |-> call.path, type |-> "dir",
     children |-> SortChildren(call.children)]

\* every entry is processed: sort the children and return
ReturnDirectory ==
    /\ pc = "fetching" /\ stack # <<>> /\ Top.phase = "items" /\ Top.i > Len(Top.items)
    /\ Return(DirectoryNode(Top, parsed.repo), Top.all_files_data_flat)
    /\ UNCHANGED <<github_url, github_token, BACKEND_GITHUB_TOKEN_ENV, parsed, requests>>

Next ==
    \/ ParseUrl
    \/ StartFetch
    \/ ListingFails
    \/ ListingMalformed
    \/ ListingSingleFile
    \/ ListingDirectory
    \/ ProcessFile
    \/ ProcessDir
    \/ SkipEntry
    \/ ReturnDirectory

Spec == Init /\ [][Next]_vars

-----------------------------------------------------------------------------
(* The URL parser on its own, over candidate URLs *)

\* what a candidate URL is assembled from after its head
Pieces == { <<"o">>, <<"o","/">>, <<"/">>, <<".","j","s">>, DotGit, SlashTree }

RECURSIVE Tails(_)
Tails(n) ==
    IF n = 0 THEN {<<>>}
    ELSE LET shorter == Tails(n - 1)
         IN  shorter \cup {t \o q : t \in shorter, q \in Pieces}

\* the right host, another host, and text before the scheme
UrlHeads == { GithubPrefix, GitlabPrefix, <<"x">> \o GithubPrefix }

CandidateUrls == {h \o t : h \in UrlHeads, t \in Tails(MaxPieces)}

InitParse ==
    /\ github_url \in CandidateUrls
    /\ github_token = None
    /\ BACKEND_GITHUB_TOKEN_ENV = None
    /\ pc = "start"
    /\ parsed = [ok |-> FALSE]
    /\ stack = <<>>
    /\ client = "none"
    /\ aclose_calls = 0
    /\ requests = <<>>
    /\ fetched = [returned |-> FALSE]
    /\ response = [status |-> "pending"]

NextParse == ParseUrl

SpecParse == InitParse /\ [][NextParse]_vars

-----------------------------------------------------------------------------
(* Vocabulary of the properties *)

Range(seq) == {seq[i] : i \in 1..Len(seq)}

Count(seq, x) == Cardinality({i \in 1..Len(seq) : seq[i] = x})

\* the two sequences hold the same elements, each as often
SameBag(s, t) == \A x \in Range(s) \cup Range(t) : Count(s, x) = Count(t, x)

PathsOfFlat(flat) == [i \in 1..Len(flat) |-> flat[i].path]

RECURSIVE FileNodesOf(_)
RECURSIVE FileNodesOfAll(_)

\* the file nodes reachable from a node, in tree order
FileNodesOf(node) ==
    IF node.type = "file" THEN <<node>> ELSE FileNodesOfAll(node.children)

FileNodesOfAll(children) ==
    IF children = <<>> THEN <<>>
    ELSE FileNodesOf(Head(children)) \o FileNodesOfAll(Tail(children))

FilePathsOfAll(children) ==
    LET nodes == FileNodesOfAll(children) IN [i \in 1..Len(nodes) |-> nodes[i].path]

RECURSIVE DirNodesOf(_)
\* the directory nodes reachable from a node
DirNodesOf(node) ==
    IF node.type = "file" THEN {}
    ELSE {node} \cup UNION {DirNodesOf(node.children[i]) : i \in 1..Len(node.children)}

ListingFailed(r) == r.kind = "listing" /\ r.answer.kind \notin {"list", "file"}
SomeListingFailed == \E k \in 1..Len(requests) : ListingFailed(requests[k])
DownloadFailed(r) == r.kind = "download" /\ r.answer # "ok"

Succeeded == pc = "done" /\ response.status = "ok"

-----------------------------------------------------------------------------
(* C1: for every call of fetch_repo_contents_recursive that returns, the paths
   of the returned flat list are exactly the paths of the file nodes reachable
   from the returned node, one flat entry per file node.  Stated for the
   initial call's return value and for what every active call has taken over
   from the calls that returned to it. *)
FlatMatchesTree ==
    /\ fetched.returned =>
          SameBag(PathsOfFlat(fetched.flat), FilePathsOfAll(<<fetched.tree>>))
    /\ \A k \in 1..Len(stack) :
          SameBag(PathsOfFlat(stack[k].all_files_data_flat), FilePathsOfAll(stack[k].children))

\* a fetch returned a file of a subdirectory and a file whose download failed
FlatMatchesTreeWitness ==
    /\ fetched.returned
    /\ Len(fetched.flat) >= 2
    /\ \E i \in 1..Len(fetched.flat) : Contains(fetched.flat[i].path, "/")
    /\ \E k \in 1..Len(requests) : DownloadFailed(requests[k])
    /\ \E k \in 1..Len(requests) : requests[k].kind = "download" /\ requests[k].answer = "ok"

(* C2: once a listing call has failed (an error status, a transport failure,
   a body that is neither a file object nor a list), at any depth, the fetch
   has ended in an error response that carries no tree, no file contents and
   no Markdown, and no call has returned a result. *)
ListingFailureAborts ==
    SomeListingFailed =>
        /\ pc = "done"
        /\ stack = <<>>
        /\ ~fetched.returned
        /\ response.status = "error"
        /\ DOMAIN response \cap {"tree", "all_files_markdown", "file_contents"} = {}

\* a listing below the root failed after a sibling file was downloaded
ListingFailureAbortsWitness ==
    /\ response.status = "error"
    /\ \E k \in 1..Len(requests) :
          /\ ListingFailed(requests[k])
          /\ requests[k].path # <<>>
          /\ \E j \in 1..(k - 1) : requests[j].kind = "download" /\ requests[j].answer = "ok"

\* the placeholder content that embeds the error of the failed download r
IsErrorContentOf(content, r) ==
    /\ content.kind \in {"error_text_content", "error_content"}
    /\ content.path = r.path
    /\ content.error = r.answer

\* the file of the failed download r has a flat entry and a file node with
\* the error placeholder among flat and nodes
RecordedIn(r, flat, nodes) ==
    /\ \E i \in 1..Len(flat) : flat[i].path = r.path /\ IsErrorContentOf(flat[i].content, r)
    /\ \E i \in 1..Len(nodes) : nodes[i].path = r.path /\ IsErrorContentOf(nodes[i].content, r)

\* every entry the remote listed was processed: a file has a flat entry, a
\* directory was listed in its turn
AllServedProcessed ==
    \A k \in 1..Len(requests) :
        (requests[k].kind = "listing" /\ requests[k].answer.kind = "list") =>
            \A i \in 1..Len(requests[k].answer.items) :
                LET item == requests[k].answer.items[i]
                IN  /\ item.type = "file" =>
                          \E j \in 1..Len(fetched.flat) : fetched.flat[j].path = item.path
                    /\ item.type = "dir" =>
                          \E j \in 1..Len(requests) :
                              requests[j].kind = "listing" /\ requests[j].path = item.path

(* C3: a failed download of a file never aborts the traversal: unless a
   listing call failed, the file has a node and a flat entry whose content is
   the placeholder embedding the error, and when the traversal is over every
   listed entry was processed and the fetch succeeded. *)
DownloadFailureAbsorbed ==
    /\ \A k \in 1..Len(requests) :
          DownloadFailed(requests[k]) =>
            \/ SomeListingFailed
            \/ fetched.returned
                 /\ RecordedIn(requests[k], fetched.flat, FileNodesOfAll(<<fetched.tree>>))
            \/ \E f \in 1..Len(stack) :
                 RecordedIn(requests[k], stack[f].all_files_data_flat,
                            FileNodesOfAll(stack[f].children))
    /\ (pc = "done" /\ parsed.ok /\ ~SomeListingFailed) =>
          response.status = "ok" /\ fetched.returned /\ AllServedProcessed

\* a fetch succeeded although a download failed before a later request
DownloadFailureAbsorbedWitness ==
    /\ Succeeded
    /\ \E k \in 1..(Len(requests) - 1) : DownloadFailed(requests[k])

\* the outcomes of the error taxonomy a 403 response maps to
Outcome(resp) ==
    IF resp.detail.kind = "rate_limit_exceeded" THEN "RateLimited"
    ELSE IF resp.detail.kind \in {"private_or_rate_limit", "check_token_permissions"}
         THEN "AccessDenied"
    ELSE "Other"

(* C4: a listing call answered 403 with X-RateLimit-Remaining "0" ends the
   fetch with the rate-limit outcome, and a 403 without that signal with the
   access-denied outcome, whatever tokens are present. *)
ForbiddenClassified ==
    \A k \in 1..Len(requests) :
        (requests[k].kind = "listing" /\ requests[k].answer.kind = "status"
            /\ requests[k].answer.code = 403) =>
            /\ response.status = "error"
            /\ response.status_code = 403
            /\ Outcome(response) =
                  (IF requests[k].answer.rate_limit_remaining = "0"
                   THEN "RateLimited" ELSE "AccessDenied")

\* a 403 with the rate-limit signal while no token at all is in use
ForbiddenClassifiedWitness ==
    /\ ~Truthy(github_token) /\ ~Truthy(BACKEND_GITHUB_TOKEN_ENV)
    /\ response.status = "error"
    /\ \E k \in 1..Len(requests) :
          /\ requests[k].kind = "listing" /\ requests[k].answer.kind = "status"
          /\ requests[k].answer.code = 403
          /\ requests[k].answer.rate_limit_remaining = "0"

\* children in the order of the data model: directories before files, and
\* within a kind names ascending when compared without case
Ordered(children) ==
    \A i, j \in 1..Len(children) :
        i < j =>
            /\ children[j].type = "dir" => children[i].type = "dir"
            /\ (children[i].type = "dir") = (children[j].type = "dir") =>
                  ~StrLess(Lower(children[j].name), Lower(children[i].name))

(* C5: in the tree a fetch returns, the children of every directory node are
   ordered directories first, then by name compared case-insensitively,
   whatever the order of the remote listing. *)
ChildrenOrdered ==
    fetched.returned => \A d \in DirNodesOf(fetched.tree) : Ordered(d.children)

\* the remote listed a file before a directory, and listed two files in an
\* order that differs from the case-insensitive one
ChildrenOrderedWitness ==
    /\ fetched.returned
    /\ \E k \in 1..Len(requests) :
          /\ requests[k].kind = "listing" /\ requests[k].answer.kind = "list"
          /\ LET items == requests[k].answer.items
             IN  /\ Len(items) >= 3
                 /\ \E i, j \in 1..Len(items) :
                       i < j /\ items[i].type = "file" /\ items[j].type = "dir"
                 /\ \E i, j \in 1..Len(items) :
                       /\ i < j /\ items[i].type = "file" /\ items[j].type = "file"
                       /\ StrLess(Lower(items[j].name), Lower(items[i].name))


\* index of the first c in s, 0 when there is none
Find(s, c) ==
    IF Contains(s, c)
    THEN CHOOSE i \in 1..Len(s) : s[i] = c /\ \A j \in 1..(i - 1) : s[j] # c
    ELSE 0

EndsWith(s, q) == Len(s) >= Len(q) /\ SubSeq(s, Len(s) - Len(q) + 1, Len(s)) = q

\* a non-empty URL segment: no '/', no line break
IsSegment(s) == s # <<>> /\ ~Contains(s, "/") /\ ~Contains(s, "LF")

\* what may follow the repo segment: nothing, a '/', or /tree/<ref> with an
\* optional /<subpath> and an optional final '/'
IsShapeRemainder(r) ==
    \/ r = <<>>
    \/ r = <<"/">>
    \/ /\ StartsWith(r, SlashTree)
       /\ Len(r) > Len(SlashTree)
       /\ r[Len(SlashTree) + 1] # "/"
       /\ ~Contains(r, "LF")

\* the URL read as https://github.com/<owner>/<repo>[.git][/tree/<ref>[/<subpath>]][/]:
\* whether it has that shape, and then its owner and its repo without '.git'
ShapeOf(url) ==
    IF ~StartsWith(url, GithubPrefix) THEN [ok |-> FALSE]
    ELSE LET rest == DropTo(url, Len(GithubPrefix) + 1)
             s1 == Find(rest, "/")
         IN  IF s1 = 0 THEN [ok |-> FALSE]
             ELSE LET owner == SubSeq(rest, 1, s1 - 1)
                      after == DropTo(rest, s1 + 1)
                      s2 == Find(after, "/")
                      segment == IF s2 = 0 THEN after ELSE SubSeq(after, 1, s2 - 1)
                      remainder == IF s2 = 0 THEN <<>> ELSE DropTo(after, s2)
                      repo == IF EndsWith(segment, DotGit)
                              THEN SubSeq(segment, 1, Len(segment) - Len(DotGit))
                              ELSE segment
                  IN  IF IsSegment(owner) /\ IsSegment(segment) /\ repo # <<>>
                         /\ IsShapeRemainder(remainder)
                      THEN [ok |-> TRUE, owner |-> owner, repo |-> repo]
                      ELSE [ok |-> FALSE]

(* C6: parse_github_url returns exactly (owner, repo) for every string of the
   shape https://github.com/<owner>/<repo>[.git][/tree/<ref>[/<subpath>]][/]
   with non-empty owner and repo, '.git' and the /tree/ suffix stripped, and
   fails with the invalid-URL error for every other string. *)
ParsesExactlyTheShape ==
    pc # "start" =>
        IF ShapeOf(github_url).ok
        THEN parsed = ShapeOf(github_url)
        ELSE ~parsed.ok /\ response = ErrorResponse(400, [kind |-> "invalid_url"])

Headings == [i \in 1..Len(response.all_files_markdown.files) |->
                response.all_files_markdown.files[i].heading]

(* C7: the File Contents section of the Markdown has one heading per entry of
   the flat list, in ascending order of the paths compared case-insensitively. *)
HeadingsSorted ==
    Succeeded =>
        /\ Len(Headings) = Len(fetched.flat)
        /\ SameBag(Headings, PathsOfFlat(fetched.flat))
        /\ \A i, j \in 1..Len(Headings) :
              i < j => ~StrLess(Lower(Headings[j]), Lower(Headings[i]))

\* the headings are in another order than the traversal visited the files in
\* and than the files have in the tree
HeadingsSortedWitness ==
    /\ Succeeded
    /\ Len(Headings) >= 2
    /\ Headings # PathsOfFlat(fetched.flat)
    /\ Headings # FilePathsOfAll(<<fetched.tree>>)

\* the fence language of the claim: from the extension of the file name
ExpectedLang(path) ==
    LET name == LastSegment(path)
        ext == IF Contains(name, ".") THEN Lower(DropTo(name, RFind(name, ".") + 1))
               ELSE <<>>
    IN  CASE ext = <<"j","s">> -> <<"j","a","v","a","s","c","r","i","p","t">>
          [] ext = <<"p","y">> -> <<"p","y","t","h","o","n">>
          [] ext = <<"m","d">> -> <<"m","a","r","k","d","o","w","n">>
          [] ext = <<"y","m","l">> -> <<"y","a","m","l">>
          [] ext = <<"s","h">> -> <<"b","a","s","h">>
          [] OTHER -> IF ext # <<>> THEN ext ELSE <<"t","e","x","t">>

(* C8: in the Markdown a file classified binary has its placeholder without a
   fence; any other file has its content in a fence whose language comes from
   the extension of the file name (after the final '.' of the final path
   segment, lowercased, through the aliases, else the raw extension) and is
   'text' when the file name has no extension, also when only a parent
   directory's name holds a '.'. *)
FenceLanguageFromExtension ==
    Succeeded =>
        \A i \in 1..Len(response.all_files_markdown.files) :
            LET section == response.all_files_markdown.files[i]
            IN  IF is_binary_file(section.heading)
                THEN ~section.fenced
                ELSE section.fenced /\ section.lang = ExpectedLang(section.heading)

RECURSIVE AddressesOf(_)
\* the nodes below a node, each as the child indexes leading to it
AddressesOf(node) ==
    UNION { { <<i>> \o a : a \in {<<>>} \cup AddressesOf(NodeChildren(node)[i]) } :
            i \in 1..Len(NodeChildren(node)) }

RECURSIVE NodeAt(_, _)
NodeAt(node, a) == IF a = <<>> THEN node ELSE NodeAt(node.children[Head(a)], Tail(a))

\* the node at address a is the last child of its parent
IsLastAt(root, a) ==
    a[Len(a)] = Len(NodeAt(root, SubSeq(a, 1, Len(a) - 1)).children)

\* a comes before b when the tree is walked parents first, children in order
RECURSIVE AddrLess(_, _)
AddrLess(a, b) ==
    IF b = <<>> THEN FALSE
    ELSE IF a = <<>> THEN TRUE
    ELSE IF Head(a) = Head(b) THEN AddrLess(Tail(a), Tail(b))
    ELSE Head(a) < Head(b)

(* C9: the tree text has one line per node, the root's first and suffixed
   with '/'; a node's line has the closing connector exactly when the node is
   the last child of its parent, and its prefix holds, for each ancestor below
   the root, four spaces when that ancestor was a last child and the vertical
   bar otherwise. *)
TreeTextShape ==
    Succeeded =>
        LET lines == response.all_files_markdown.structure
            root == response.tree
            addrs == AddressesOf(root)
        IN  /\ Len(lines) = 1 + Cardinality(addrs)
            /\ lines[1].name = root.name /\ lines[1].slash /\ lines[1].prefix = <<>>
            /\ \A a \in addrs :
                  LET line == lines[2 + Cardinality({b \in addrs : AddrLess(b, a)})]
                  IN  /\ line.name = NodeAt(root, a).name
                      /\ line.connector = (IF IsLastAt(root, a) THEN "L-- " ELSE "+-- ")
                      /\ line.prefix =
                            [k \in 1..(Len(a) - 1) |->
                                IF IsLastAt(root, SubSeq(a, 1, k)) THEN "    " ELSE "|   "]

\* a rendered tree with a node below a directory that is not a last child
TreeTextShapeWitness ==
    /\ Succeeded
    /\ \E i \in 1..Len(response.all_files_markdown.structure) :
          LET line == response.all_files_markdown.structure[i]
          IN  line.prefix = <<"|   ">> /\ line.connector = "L-- "

\* the credential of the whole traversal: the caller's token when one is
\* supplied, else the fallback when one is configured, else none
ExpectedAuthorization ==
    IF github_token # None /\ github_token # "" THEN github_token
    ELSE IF BACKEND_GITHUB_TOKEN_ENV # None THEN BACKEND_GITHUB_TOKEN_ENV
    ELSE None

(* C10: every request of a traversal, listing or download, at every depth,
   carries the same credential: the caller's token when supplied, else the
   configured fallback, else no authorization header. *)
CredentialPrecedence ==
    \A k \in 1..Len(requests) : requests[k].authorization = ExpectedAuthorization

\* a listing below the root and a download, with both tokens present
CredentialPrecedenceWitness ==
    /\ github_token = "user_token" /\ BACKEND_GITHUB_TOKEN_ENV = "env_token"
    /\ \E k \in 1..Len(requests) : requests[k].kind = "listing" /\ requests[k].path # <<>>
    /\ \E k \in 1..Len(requests) : requests[k].kind = "download"

\* the file descriptors the remote served: the file entries of the listings and
\* the file objects answered for a path
ServedFiles ==
    UNION { IF requests[k].kind # "listing" THEN {}
            ELSE IF requests[k].answer.kind = "file" THEN {requests[k].answer.item}
            ELSE IF requests[k].answer.kind = "list"
                 THEN {it \in Range(requests[k].answer.items) : it.type = "file"}
            ELSE {} : k \in 1..Len(requests) }

\* the file nodes and the flat entries that calls hold or have returned
RecordedNodes ==
    (IF fetched.returned THEN Range(FileNodesOfAll(<<fetched.tree>>)) ELSE {})
    \cup UNION { Range(FileNodesOfAll(stack[k].children)) : k \in 1..Len(stack) }

RecordedFlat ==
    (IF fetched.returned THEN Range(fetched.flat) ELSE {})
    \cup UNION { Range(stack[k].all_files_data_flat) : k \in 1..Len(stack) }

(* C11: a file whose path the binary classifier flags is never downloaded,
   whether it was an entry of a listing or the file object answered for the
   requested path, and whether or not its descriptor carries a download URL;
   wherever it is recorded, in a node or in a flat entry, its content is
   exactly the binary placeholder of its path, and a fetch that succeeded
   has recorded every such file served. *)
BinaryNeverFetched ==
    /\ \A k \in 1..Len(requests) :
          requests[k].kind = "download" => ~is_binary_file(requests[k].path)
    /\ \A n \in RecordedNodes :
          is_binary_file(n.path) => n.content = BinaryPlaceholder(n.path)
    /\ \A e \in RecordedFlat :
          is_binary_file(e.path) => e.content = BinaryPlaceholder(e.path)
    /\ Succeeded =>
          \A it \in ServedFiles :
              is_binary_file(it.path) =>
                  /\ \E n \in RecordedNodes : n.path = it.path
                  /\ \E e \in RecordedFlat : e.path = it.path

\* a fetch succeeded with a binary file of a listing whose descriptor carries
\* a download URL, next to a text file that was downloaded
BinaryNeverFetchedWitness ==
    /\ Succeeded
    /\ \E k \in 1..Len(requests) :
          /\ requests[k].kind = "listing" /\ requests[k].answer.kind = "list"
          /\ \E it \in Range(requests[k].answer.items) :
                it.type = "file" /\ is_binary_file(it.path) /\ it.download_url
    /\ \E k \in 1..Len(requests) : requests[k].kind = "download"

\* the content of the served file descriptor it wherever a call recorded it
ContentsRecordedFor(it) ==
    { n.content : n \in {m \in RecordedNodes : m.path = it.path} }
    \cup { e.content : e \in {f \in RecordedFlat : f.path = it.path} }

\* the text of the inline payload, base64-decoded then decoded as UTF-8 with
\* replacement: the content the fallback would record
DecodedInline(path) == [kind |-> "inline_text", path |-> path]

(* C12: a file that is not binary and whose descriptor has no download URL
   but carries inline base64 content is recorded, in its node and in its flat
   entry, with the decoded inline payload as its content. *)
InlineContentDecoded ==
    \A it \in ServedFiles :
        (~is_binary_file(it.path) /\ ~it.download_url /\ it.inline) =>
            \A c \in ContentsRecordedFor(it) : c = DecodedInline(it.path)

(* C13: a file that is not binary and whose descriptor has neither a download
   URL nor inline base64 content is recorded with the placeholder saying that
   the content was not fetched, never with the binary placeholder, both as an
   entry of a listing and as the file object answered for the requested
   path. *)
NotFetchedWhenNoSource ==
    \A it \in ServedFiles :
        (~is_binary_file(it.path) /\ ~it.download_url /\ ~it.inline) =>
            \A c \in ContentsRecordedFor(it) :
                c = NotFetchedPlaceholder(it.path) /\ c # BinaryPlaceholder(it.path)

\* the initial call of fetch_repo_contents_recursive has been made and has
\* exited, by a return or by an exception
InitialCallExited == pc = "done" /\ parsed.ok

(* C14: the client that the initial call creates is closed exactly once, when
   that call exits, however it exits: it is open and was never closed while
   any call is active, so a call that was handed the client and returned has
   not closed it; it is closed, by one aclose(), once the initial call has
   exited; and every listing and download request was issued on the open
   client. *)
ClientClosedOnceAtExit ==
    /\ aclose_calls <= 1
    /\ stack # <<>> => client = "open" /\ aclose_calls = 0
    /\ InitialCallExited => client = "closed" /\ aclose_calls = 1
    /\ ~InitialCallExited /\ stack = <<>> => client = "none" /\ aclose_calls = 0
    /\ \A k \in 1..Len(requests) : requests[k].client = "open"

\* the initial call exited by an exception of a listing below the root, after
\* a recursive call for another directory had returned
ClientClosedOnceAtExitWitness ==
    /\ InitialCallExited
    /\ response.status = "error"
    /\ \E j, k \in 1..Len(requests) :
          /\ j < k
          /\ requests[j].kind = "listing" /\ requests[j].answer.kind = "list"
          /\ requests[j].path # <<>>
          /\ ListingFailed(requests[k])
          /\ requests[k].path # <<>>
          /\ ~StartsWith(requests[k].path, requests[j].path)

====
